---- MODULE Spec2Model ----
(***************************************************************************)
(* A model of web_app.py: the image preparation (load_image,                *)
(* process_image), the amplitude encoder (encode_image, adjust_brightness,  *)
(* draw_horz_sound), the live loop of get_sound and the export loop of      *)
(* visualize_youtube_video.                                                 *)
(***************************************************************************)
EXTENDS Integers, Sequences, FiniteSets, TLC

(***************************************************************************)
(* Binary floating point.  The source computes the brightness factor in    *)
(* binary64 (Python floats, numpy float64) and scales the value channel in  *)
(* binary32 (numpy float32).  A number is a record [q, e] that stands for   *)
(*        q / Divisor  +  e / (Divisor * 2^K)                               *)
(* where q counts ten-thousandths (the unit of a PCM sample after the       *)
(* division by 10000) and e is the binary rounding residue, in units of     *)
(* 2^-K of a ten-thousandth.  K is DoubleScale for binary64 values and      *)
(* FloatScale for binary32 values; |e| stays far below 2^K, so numbers are  *)
(* ordered lexicographically.  Rounding is to nearest, ties to even.        *)
(***************************************************************************)
Divisor == 10000
DoubleBits == 53
FloatBits == 24
DoubleScale == 66
FloatScale == 26

Num(q, e) == [q |-> q, e |-> e]

\* The element of a one-element set.  An intermediate result of the source is
\* computed once and then named: v \in {expression} in what follows.
Val(S) == CHOOSE v \in S : TRUE

RECURSIVE Pow2(_)
Pow2(n) == IF n <= 0 THEN 1 ELSE 2 * Pow2(n - 1)

RECURSIVE Pow2Mod(_, _)
Pow2Mod(n, m) == IF n <= 0 THEN 1 % m ELSE (2 * Pow2Mod(n - 1, m)) % m

Less(a, b) == a.q < b.q \/ (a.q = b.q /\ a.e < b.e)

Neg(a) == Num(-a.q, -a.e)

RECURSIVE ExpUp(_, _)
ExpUp(q, k) == IF q >= 2 * Divisor * Pow2(k) THEN ExpUp(q, k + 1) ELSE k

RECURSIVE ExpDown(_, _)
ExpDown(q, j) == IF q * Pow2(j) >= Divisor THEN j ELSE ExpDown(q, j + 1)

\* The binary exponent E of a positive number: 2^E <= a < 2^(E+1).
BinExp(a) ==
    LET E0 == IF a.q >= Divisor THEN ExpUp(a.q, 0) ELSE -ExpDown(a.q, 1)
        onPower == IF E0 >= 0 THEN a.q = Divisor * Pow2(E0)
                              ELSE a.q * Pow2(-E0) = Divisor
    IN IF onPower /\ a.e < 0 THEN E0 - 1 ELSE E0

\* A positive number rounded to the binary digit p places after the point;
\* `tie` breaks an exact tie when the number carries a residue below the unit
\* of e (-1, 0 or 1).
RoundAt(a, tie, scale, p) ==
    Val({LET G    == Pow2(scale - p)
             D    == Divisor * G
             r    == z % Divisor
             odd0 == z >= Divisor
             T    == r * G + a.e
             c    == T \div D
             Tm   == T % D
             odd  == (odd0 /\ c % 2 = 0) \/ (~odd0 /\ c % 2 = 1)
             up   == \/ 2 * Tm > D
                     \/ 2 * Tm = D /\ (tie > 0 \/ (tie = 0 /\ odd))
         IN Num(a.q, IF up THEN a.e - Tm + D ELSE a.e - Tm)
         : z \in {((a.q % (2 * Divisor)) * Pow2Mod(p, 2 * Divisor)) % (2 * Divisor)}})

\* A positive number rounded to `bits` significant bits.
RoundPos(a, tie, scale, bits) ==
    Val({RoundAt(a, tie, scale, p) : p \in {(bits - 1) - BinExp(a)}})

Round(x, tie, scale, bits) ==
    Val({IF a.q = 0 /\ a.e = 0 THEN a
         ELSE IF Less(a, Num(0, 0))
              THEN Val({Neg(RoundPos(n, -tie, scale, bits)) : n \in {Neg(a)}})
              ELSE RoundPos(a, tie, scale, bits) : a \in {x}})

\* binary64 operations.
DRound(a) == Round(a, 0, DoubleScale, DoubleBits)
DAdd(x, y) == Val({DRound(Num(a.q + b.q, a.e + b.e)) : a \in {x}, b \in {y}})
\* An integer sample divided by 10000 (numpy true division).
DDivSample(s) == DRound(Num(s, 0))
\* A decimal literal with `tenThousandths` ten-thousandths, such as 0.3.
DLiteral(tenThousandths) == DRound(Num(tenThousandths, 0))

\* binary64 -> binary32 (the in-place float32 multiplication casts the factor).
ToFloat32(x) ==
    Val({LET z == ((a.q % (2 * Divisor)) * Pow2Mod(p, 2 * Divisor)) % (2 * Divisor)
             G == Pow2(FloatScale - p)
             r == z % Divisor
             odd0 == z >= Divisor
             up == \/ 2 * r > Divisor
                   \/ 2 * r = Divisor /\ (a.e > 0 \/ (a.e = 0 /\ odd0))
         IN IF r = 0 THEN Num(a.q, 0)
            ELSE IF up THEN Num(a.q, (Divisor - r) * G) ELSE Num(a.q, -(r * G))
         : a \in {x}, p \in {(FloatBits - 1) - BinExp(x)}})

\* binary32 product of an 8-bit integer and a binary32 number.
FMulInt(v, f) ==
    IF v = 0 THEN Num(0, 0)
    ELSE Round(Num(v * f.q, v * f.e), 0, FloatScale, FloatBits)

\* Conversion of a non-negative number to an integer type truncates.
Trunc(x) ==
    Val({IF a.q % Divisor = 0 /\ a.e < 0 THEN (a.q \div Divisor) - 1
         ELSE a.q \div Divisor : a \in {x}})


(***************************************************************************)
(* Bounds of the model.                                                     *)
(***************************************************************************)
\* Number of sampled pixel positions an array is observed at.
NPix == 2
\* Largest width or height of an uploaded file.
MaxDim == 2001
\* Longest amplitude window.
MaxWin == 3
\* Length in seconds of the downloaded audio.
MaxDuration == 12

(***************************************************************************)
(* Arrays.  An image array is its shape <<height, width, channels>>, the    *)
(* values at NPix sampled positions, and the line segments cv2.line has     *)
(* drawn on it.  The pixels of an image are achromatic (R = G = B), so one  *)
(* 8-bit level stands for the three channels; a mask pixel is an            *)
(* <<R, G, B>> triple.  Every array operation of the source other than      *)
(* cv2.resize is elementwise, so it acts on each sampled position alone.    *)
(***************************************************************************)
Positions == 1..NPix

Array(h, w, c, pix) == [shape |-> <<h, w, c>>, pix |-> pix, lines |-> <<>>]

Height(a) == a.shape[1]
Width(a) == a.shape[2]
Channels(a) == a.shape[3]

Min(a, b) == IF a < b THEN a ELSE b
Max(a, b) == IF a > b THEN a ELSE b

\* Round half to even of num / den (den > 0): Python's round and cvRound.
RoundHalfEven(num, den) ==
    LET fl == num \div den
        rm == num % den
    IN IF 2 * rm < den THEN fl
       ELSE IF 2 * rm > den THEN fl + 1
       ELSE IF fl % 2 = 0 THEN fl ELSE fl + 1

(***************************************************************************)
(* PIL images: a file has a size <<width, height>>, a mode and pixels.      *)
(***************************************************************************)
File(w, h, mode, pix) == [size |-> <<w, h>>, mode |-> mode, pix |-> pix]

ModeChannels(mode) ==
    CASE mode = "L" -> 1
      [] mode = "RGB" -> 3
      [] mode = "RGBA" -> 4

\* img.convert('RGB')
ConvertRGB(f) == [f EXCEPT !.mode = "RGB"]

\* np.asarray(img, dtype=np.uint8): a mode "L" image gives a 2-D array, whose
\* shape has no third entry (written 0 here).
AsArray(f) ==
    Array(f.size[2], f.size[1],
          IF f.mode = "L" THEN 0 ELSE ModeChannels(f.mode), f.pix)

\* img.shape[2] raises IndexError on a 2-D array.
ShapeIndexError(a) == Channels(a) = 0

sample_images == <<"files/trees.jpg", "files/waterfall_orig.jpg">>
sample_images_mask == <<"files/trees_mask.png", "files/waterfall_mask.png">>

NoFile == File(0, 0, "None", <<>>)
NoArray == Array(0, 0, 0, <<>>)

VARIABLES
    \* What the user and the deployment supply to one run of the script.
    selected_box,        \* the page chosen in the sidebar
    playing,             \* webrtc_ctx.state.playing
    uploaded_img_file,   \* the uploaded image file, or NoFile
    uploaded_img_mask,   \* the uploaded mask file, or NoFile
    button,              \* "Use an existing example" was pressed
    sample_files,        \* the bundled sample images and masks
    sign_img,            \* the bundled sign glyph
    audio,               \* the audio loaded from the link
    slider,              \* <<start_time, end_time>> of the range slider
    fps,                 \* the frame rate chosen with the radio buttons
    \* The state of the run.
    pc,                  \* where the script is
    warning,             \* the st.warning shown, if any
    img, img_mask,       \* what load_image returned
    img_width, img_height,
    binary_mask,
    heap,                \* the arrays allocated by process_image and encode_image
    resized_img, img_foreground, img_background,  \* names of arrays in heap
    amplitudes,          \* the array of amplitudes last passed to encode_image
    max_val,             \* its element of largest absolute value (line 117)
    brightness,          \* the value last passed to adjust_brightness
    merged_image,        \* name of the array encode_image returned last
    cut_audio, chunks, chunk_index, img_clips, video

env == <<selected_box, playing, uploaded_img_file, uploaded_img_mask, button,
         sample_files, sign_img, audio, slider, fps>>
loaded == <<img, img_mask>>
layers == <<img_width, img_height, binary_mask, resized_img, img_foreground,
            img_background>>
encoded == <<amplitudes, max_val, brightness, merged_image>>
export == <<cut_audio, chunks, chunk_index, img_clips, video>>
vars == <<env, pc, warning, loaded, layers, heap, encoded, export>>

\* The arrays of one run; "none" is the name no array has been bound to yet.
Slots == {"none", "resized", "fg", "bg", "adj", "merged"}

(***************************************************************************)
(* main                                                                     *)
(***************************************************************************)
Pages == {"Welcome", "Visualize Sound in Real Time", "Visualize Sound - YouTube"}

\* main, and get_sound up to its first return.
Main ==
    /\ pc = "main"
    /\ pc' = CASE selected_box = "Welcome" -> "welcome"
               [] selected_box = "Visualize Sound in Real Time" ->
                      IF playing THEN "load_image" ELSE "returned"
               [] selected_box = "Visualize Sound - YouTube" -> "select_slider"
    /\ UNCHANGED <<env, warning, loaded, layers, heap, encoded, export>>

max_time_s == 10

\* visualize_youtube_video from the slider to the frame rate radio.
SelectRange ==
    /\ pc = "select_slider"
    /\ LET start_time == slider[1]
           end_time == slider[2]
           audio_time == end_time - start_time
       IN IF audio_time < 0 \/ audio_time > max_time_s
          THEN pc' = "stopped" /\ warning' = "reduce the selected range"
          ELSE pc' = "load_image" /\ UNCHANGED warning
    /\ UNCHANGED <<env, loaded, layers, heap, encoded, export>>

(***************************************************************************)
(* load_image                                                               *)
(***************************************************************************)
\* The size test comparing the widths only.
SizeMismatchWidth(pil_img, pil_mask) ==
    pil_img # NoFile /\ pil_mask # NoFile /\ pil_img.size[1] # pil_mask.size[1]

\* The size test of load_image, made on the upload path only.
SizeMismatch(pil_img, pil_mask) ==
    pil_img # NoFile /\ pil_mask # NoFile /\ pil_img.size # pil_mask.size

LoadImage ==
    /\ pc = "load_image"
    /\ \E random_index \in 0..(Len(sample_images) - 1) :
         LET pil_img ==
                 IF button THEN sample_files[random_index + 1].img
                 ELSE IF uploaded_img_file # NoFile
                      THEN ConvertRGB(uploaded_img_file) ELSE NoFile
             pil_mask ==
                 IF button THEN sample_files[random_index + 1].mask
                 ELSE IF uploaded_img_mask # NoFile
                      THEN ConvertRGB(uploaded_img_mask) ELSE NoFile
             arr == AsArray(pil_img)
             mask_arr == AsArray(pil_mask)
             Stop(w) == /\ pc' = "stopped" /\ warning' = w /\ UNCHANGED loaded
             Raise == /\ pc' = "error" /\ UNCHANGED <<warning, loaded>>
         IN IF ~button /\ SizeMismatch(pil_img, pil_mask)
            THEN Stop("mask size does not match image size")
            ELSE IF pil_img = NoFile /\ pil_mask # NoFile
            THEN Stop("mask only works with an uploaded image")
            ELSE IF pil_img = NoFile
            THEN Stop("please upload an image")
            ELSE IF ShapeIndexError(arr) THEN Raise
            ELSE IF Channels(arr) # 3
            THEN Stop("image has to be an RGB image")
            ELSE IF pil_mask # NoFile /\ ShapeIndexError(mask_arr) THEN Raise
            ELSE IF pil_mask # NoFile /\ Channels(mask_arr) # 3
            THEN Stop("image mask has to be an RGB image")
            ELSE /\ pc' = "process_image"
                 /\ img' = arr
                 /\ img_mask' = IF pil_mask # NoFile THEN mask_arr ELSE NoArray
                 /\ UNCHANGED warning
    /\ UNCHANGED <<env, layers, heap, encoded, export>>

(***************************************************************************)
(* process_image                                                            *)
(***************************************************************************)
MaxSide == 500

\* The loop with `and` where the source has `or`.
RECURSIVE ResizeLoopBoth(_, _)
ResizeLoopBoth(w, h) ==
    IF w > MaxSide /\ h > MaxSide THEN ResizeLoopBoth(w \div 2, h \div 2)
    ELSE <<w, h>>

\* The resize loop: int(x / 2) of a non-negative int is x \div 2.
RECURSIVE ResizeLoop(_, _)
ResizeLoop(w, h) ==
    IF w > MaxSide \/ h > MaxSide THEN ResizeLoop(w \div 2, h \div 2)
    ELSE <<w, h>>

\* Levels a pixel of an image, a mask and the placed sign can take in the model.
PixLevels == {0, 200}
MaskLevels == {<<0, 0, 0>>, <<0, 0, 1>>, <<255, 255, 255>>}
SignLevels == {0, 255}
ResizedMaskLevels == {<<0, 0, 0>>, <<255, 255, 255>>}

\* cv2.resize: an array of the new shape.  Resizing to the same size copies the
\* array; otherwise the pixels are interpolated, and are any of `levels` here.
Resize(a, w, h, levels) ==
    IF w = Width(a) /\ h = Height(a) THEN {Array(h, w, Channels(a), a.pix)}
    ELSE {Array(h, w, Channels(a), pix) : pix \in [Positions -> levels]}

\* Lines 56-63.
ProcessResize ==
    /\ pc = "process_image"
    /\ LET dims == ResizeLoop(Width(img), Height(img))
       IN /\ img_width' = dims[1]
          /\ img_height' = dims[2]
          /\ IF dims[1] = 0 \/ dims[2] = 0
             THEN /\ pc' = "error"
                  /\ UNCHANGED <<heap, resized_img>>
             ELSE /\ pc' = "segment"
                  /\ resized_img' = "resized"
                  /\ \E out \in Resize(img, dims[1], dims[2], PixLevels) :
                        heap' = [heap EXCEPT !["resized"] = out]
    /\ UNCHANGED <<env, warning, loaded, binary_mask, img_foreground,
                   img_background, encoded, export>>

\* cv2.cvtColor(img_mask, cv2.COLOR_RGB2GRAY) of one pixel.
Rgb2Gray(p) == RoundHalfEven(299 * p[1] + 587 * p[2] + 114 * p[3], 1000)

\* np.uint8((gray > 0) * 255)
Binarize(mask_arr) ==
    [p \in Positions |-> IF Rgb2Gray(mask_arr.pix[p]) > 0 THEN 255 ELSE 0]

\* cv2.bitwise_not of an 8-bit value.
BitwiseNot(v) == 255 - v

RECURSIVE BitOr(_, _)
BitOr(a, b) ==
    IF a = 0 /\ b = 0 THEN 0
    ELSE (IF a % 2 = 1 \/ b % 2 = 1 THEN 1 ELSE 0) + 2 * BitOr(a \div 2, b \div 2)

\* cv2.bitwise_or(a, b, mask=mask): a new array, zero where the mask is zero.
BitwiseOr(a, b, mask) ==
    Array(Height(a), Width(a), Channels(a),
          [p \in Positions |->
              IF mask[p] # 0 THEN BitOr(a.pix[p], b.pix[p]) ELSE 0])

\* The background cut with the mask of the foreground.
BackgroundMaskSame(bm) == bm

\* The mask handed to cv2.bitwise_or for the background (line 75).
BackgroundMask(bm) == [p \in Positions |-> BitwiseNot(bm[p])]

\* Lines 64-75.
ProcessSegment ==
    /\ pc = "segment"
    /\ pc' = "sign"
    /\ IF img_mask = NoArray
       THEN /\ img_foreground' = resized_img
            /\ img_background' = "bg"
            /\ heap' = [heap EXCEPT !["bg"] =
                           Array(img_height, img_width, 3, [p \in Positions |-> 0])]
            /\ UNCHANGED binary_mask
       ELSE \E m \in Resize(img_mask, img_width, img_height, ResizedMaskLevels) :
               LET bm == Binarize(m)
                   im == heap[resized_img]
               IN /\ binary_mask' = bm
                  /\ img_foreground' = "fg"
                  /\ img_background' = "bg"
                  /\ heap' = [heap EXCEPT
                                 !["fg"] = BitwiseOr(im, im, bm),
                                 !["bg"] = BitwiseOr(im, im, BackgroundMask(bm))]
    /\ UNCHANGED <<env, warning, loaded, img_width, img_height, resized_img,
                   encoded, export>>

\* int(n * 0.15): equal to (15 * n) \div 100 for every n up to 20000.
Scaled(n) == (15 * n) \div 100

Inset == 10

\* cv2.addWeighted(a, 1.0, b, 0.5, 0) of one 8-bit pixel: rounded, saturated.
AddWeighted(a, b) == Min(255, RoundHalfEven(2 * a + b, 2))

\* The length of a[i:j] along an axis of length len, as numpy computes it.
PySliceLen(len, i, j) ==
    LET Norm(k) == IF k < 0 THEN Max(0, k + len) ELSE Min(k, len)
    IN Max(0, Norm(j) - Norm(i))

\* The assignment of lines 86-87 raises unless the slice has the glyph's shape.
SignFits(len, adjusted) ==
    adjusted > 0 /\ PySliceLen(len, len - adjusted - Inset, len - Inset) = adjusted

\* Lines 78-93.  sign_img.pix holds binary_sign_img, the resized glyph placed in
\* the corner, at the sampled positions.
ProcessSign ==
    /\ pc = "sign"
    /\ LET adjusted_height == Scaled(sign_img.shape[1])
           adjusted_width == Scaled(sign_img.shape[2])
           bg == heap[img_background]
       IN IF ~SignFits(img_height, adjusted_height) \/ ~SignFits(img_width, adjusted_width)
          THEN pc' = "error" /\ UNCHANGED heap
          ELSE /\ heap' = [heap EXCEPT ![img_background] =
                              [bg EXCEPT !.pix = [p \in Positions |->
                                  AddWeighted(bg.pix[p], sign_img.pix[p])]]]
               /\ pc' = IF selected_box = "Visualize Sound in Real Time"
                        THEN "get_frames" ELSE "cut_audio"
    /\ UNCHANGED <<env, warning, loaded, layers, encoded, export>>

(***************************************************************************)
(* adjust_brightness, draw_horz_sound, encode_image                         *)
(***************************************************************************)
\* An achromatic pixel has hue 0, saturation 0 and its level as value, and
\* the conversions to and from HSV keep it.  The value channel is multiplied
\* in float32 and np.uint8 truncates the product.
AdjustBrightness(a, value) ==
    Val({[a EXCEPT !.pix = [p \in Positions |-> Trunc(FMulInt(a.pix[p], f))]]
         : f \in {ToFloat32(value)}})

\* np.add of two uint8 arrays: a new uint8 array.
NpAdd(a, b) ==
    [shape |-> a.shape,
     pix |-> [p \in Positions |-> (a.pix[p] + b.pix[p]) % 256],
     lines |-> a.lines \o b.lines]

pos_x == 20

\* The two end points of segment i (lines 107-112), from amplitudes[i] and
\* amplitudes[i + 1], given by their samples s1 and s2 (ten-thousandths); n is
\* len(amplitudes).  Computed exactly; round is Python's round.
Segment(a, i, n, s1, s2) ==
    LET W == Width(a)
        H == Height(a)
        Y(s) == RoundHalfEven((H - 50) * 30 * Divisor - s * H, 30 * Divisor)
        X(k) == RoundHalfEven(pos_x * 4 * n + k * W, 4 * n)
    IN [from |-> i, to |-> i + 1,
        point1 |-> <<X(i), Y(s1)>>, point2 |-> <<X(i + 1), Y(s2)>>]

\* The indices the loop of draw_horz_sound runs over: range(0, len - 2).
DrawRange(n) == 0..(n - 3)

\* draw_horz_sound draws on the array it is given.
DrawHorzSound(a, amps) ==
    LET n == Len(amps)
    IN [a EXCEPT !.lines = @ \o [k \in 1..Cardinality(DrawRange(n)) |->
                                    Segment(a, k - 1, n, amps[k].q, amps[k + 1].q)]]

Abs(x) == IF Less(x, Num(0, 0)) THEN Neg(x) ELSE x

\* The fold that also replaces the best element by a later one of equal size.
RECURSIVE MaxFromLast(_, _, _)
MaxFromLast(arr, k, best) ==
    IF k > Len(arr) THEN best
    ELSE Val({MaxFromLast(arr, k + 1, b) :
                 b \in {IF Less(Abs(arr[k]), Abs(best)) THEN best ELSE arr[k]}})

\* max that returns the last of the largest elements.
PyMaxLast(x) == Val({MaxFromLast(arr, 2, arr[1]) : arr \in {x}})

\* max(amplitudes, key=abs): the first element no later element exceeds.
RECURSIVE MaxFrom(_, _, _)
MaxFrom(arr, k, best) ==
    IF k > Len(arr) THEN best
    ELSE Val({MaxFrom(arr, k + 1, b) :
                 b \in {IF Less(Abs(best), Abs(arr[k])) THEN arr[k] ELSE best}})

PyMax(x) == Val({MaxFrom(arr, 2, arr[1]) : arr \in {x}})

\* A clip that bounds from above only.
NpClipAbove(x, lo, hi) == Val({IF Less(h, v) THEN h ELSE v : v \in {x}, h \in {hi}})

\* np.clip(x, lo, hi)
NpClip(x, lo, hi) ==
    Val({IF Less(m, h) THEN m ELSE h :
            m \in {Val({IF Less(v, l) THEN l ELSE v : v \in {x}, l \in {lo}})},
            h \in {hi}})

\* np.array(samples) / 10000
SoundArray(window) == [k \in 1..Len(window) |-> DDivSample(window[k])]

\* The literals 0.3 and 0.7 of encode_image.
clip_bound == DLiteral(3000)
base_brightness == DLiteral(7000)

\* Lines 117-119: max_val after the clip, for the array of amplitudes.
ClippedPeak(amps) == NpClip(PyMax(amps), Neg(clip_bound), clip_bound)

\* Lines 121-122: max_val + 0.7 with max_val negated.
BrightnessFactor(amps) == DAdd(Neg(ClippedPeak(amps)), base_brightness)

\* Lines 117-122: the adjusted foreground is a new array.
Adjusted(h, fg, amps) ==
    [h EXCEPT !["adj"] = AdjustBrightness(h[fg], BrightnessFactor(amps))]

\* np.add with out=img_background.
MergedInPlace(h, bg) ==
    [h EXCEPT ![bg] = NpAdd(h["adj"], h[bg]), !["merged"] = NpAdd(h["adj"], h[bg])]

\* Line 123: np.add returns a new array.
Merged(h, bg) == [h EXCEPT !["merged"] = NpAdd(h["adj"], h[bg])]

\* Lines 124-125: the trace is drawn on merged_image.
Plotted(h, amps) == [h EXCEPT !["merged"] = DrawHorzSound(h["merged"], amps)]

\* The heap after encode_image(amplitudes_per_img_frame, fg, bg, should_plot);
\* the frame it returns is heap["merged"].
EncodeImage(h, fg, bg, amps, should_plot) ==
    Val({IF should_plot THEN Plotted(h2, amps) ELSE h2 :
            h2 \in {Val({Merged(h1, bg) : h1 \in {Adjusted(h, fg, amps)}})}})

\* One call of encode_image on sound_array, the samples divided by 10000.
Encode(sound_array, should_plot) ==
    /\ amplitudes' = sound_array
    /\ max_val' = PyMax(sound_array)
    /\ brightness' = BrightnessFactor(sound_array)
    /\ heap' = EncodeImage(heap, img_foreground, img_background, sound_array, should_plot)
    /\ merged_image' = "merged"

(***************************************************************************)
(* get_sound: the live loop                                                 *)
(***************************************************************************)
\* One turn of the while loop with the samples of the frames that arrived.
GetFrames(window) ==
    /\ pc = "get_frames"
    /\ IF Len(window) = 0
       THEN pc' = "error" /\ UNCHANGED <<heap, encoded>>
       ELSE pc' = "get_frames" /\ \E sound_array \in {SoundArray(window)} :
                                       Encode(sound_array, FALSE)
    /\ UNCHANGED <<env, warning, loaded, layers, export>>

\* get_frames timed out: the status is written and get_sound returns.
NoFrame ==
    /\ pc = "get_frames"
    /\ pc' = "returned"
    /\ UNCHANGED <<env, warning, loaded, layers, heap, encoded, export>>

(***************************************************************************)
(* visualize_youtube_video: the export                                      *)
(***************************************************************************)
\* An AudioSegment is the span [from, to) in milliseconds of the loaded audio
\* and the samples there: wave is a sequence of windows the audio repeats.
\* audio[a:b] clips both ends to the length of the audio.
Slice(seg, a, b) ==
    LET len == seg.to - seg.from
    IN [seg EXCEPT !.from = seg.from + Min(a, len), !.to = seg.from + Min(b, len)]

SegmentLen(seg) == seg.to - seg.from

\* chunk_ms = (1 / fps) * 1000, in sixths of a millisecond (every rate of the
\* radio divides 6000).  In binary64 chunk_ms is a rounding above 1000 / fps;
\* for every length up to 10000 ms the count below is the one the source's
\* ceil(len / chunk_ms) gives.
ChunkLength(f) == 6000 \div f

\* int(len / chunk_length) in place of the ceiling.
NumberOfChunksTruncated(len_ms, f) == (6 * len_ms) \div ChunkLength(f)

\* pydub.utils.make_chunks: ceil(len(audio_segment) / chunk_length) chunks.
NumberOfChunks(len_ms, f) ==
    (6 * len_ms + ChunkLength(f) - 1) \div ChunkLength(f)

\* Chunk k (from 0) of the clip, in sixths of a millisecond.
Chunk(len_ms, f, k) ==
    [from |-> Min(k * ChunkLength(f), 6 * len_ms),
     to |-> Min((k + 1) * ChunkLength(f), 6 * len_ms)]

\* chunk.get_array_of_samples() of chunk k (from 0) of a segment.
ChunkSamples(seg, k) ==
    seg.wave[((seg.from \div 1000 + k) % Len(seg.wave)) + 1]

FrameRates == {30, 60, 120, 240}

\* Lines 330-343.
CutAudio ==
    /\ pc = "cut_audio"
    /\ LET cut == Slice(audio, slider[1] * 1000, slider[2] * 1000)
       IN /\ cut_audio' = cut
          /\ chunks' = NumberOfChunks(SegmentLen(cut), fps)
    /\ chunk_index' = 0
    /\ img_clips' = 0
    /\ pc' = "export_loop"
    /\ UNCHANGED <<env, warning, loaded, layers, heap, encoded, video>>

\* One turn of the loop over chunks (lines 344-348); img_clips counts the clips
\* appended, each of duration 1 / fps.
ExportChunk ==
    /\ pc = "export_loop"
    /\ chunk_index < chunks
    /\ LET c == Chunk(SegmentLen(cut_audio), fps, chunk_index)
           window == ChunkSamples(cut_audio, chunk_index)
       IN IF c.to = c.from \/ Len(window) = 0
          THEN /\ pc' = "error"
               /\ UNCHANGED <<heap, encoded, chunk_index, img_clips>>
          ELSE /\ \E sound_array \in {SoundArray(window)} : Encode(sound_array, TRUE)
               /\ img_clips' = img_clips + 1
               /\ chunk_index' = chunk_index + 1
               /\ pc' = "export_loop"
    /\ UNCHANGED <<env, warning, loaded, layers, cut_audio, chunks, video>>

\* The whole audio in place of the cut.
ExportedAudioWhole == audio

\* The audio the export writes and attaches (lines 352-356).
ExportedAudio == cut_audio

\* Lines 350-357; concatenate_videoclips raises on an empty list of clips.
WriteVideo ==
    /\ pc = "export_loop"
    /\ chunk_index = chunks
    /\ IF img_clips = 0
       THEN pc' = "error" /\ UNCHANGED video
       ELSE /\ pc' = "done"
            /\ video' = [frames |-> img_clips, fps |-> fps,
                         audio_clip |-> ExportedAudio]
    /\ UNCHANGED <<env, warning, loaded, layers, heap, encoded, cut_audio,
                   chunks, chunk_index, img_clips>>

(***************************************************************************)
(* Initial states                                                           *)
(***************************************************************************)
Pix(v) == [p \in Positions |-> v]

White == <<255, 255, 255>>

\* The bundled samples: RGB images with RGB masks of the same size.
SampleFiles ==
    <<[img |-> File(400, 300, "RGB", Pix(200)), mask |-> File(400, 300, "RGB", Pix(White))],
      [img |-> File(1000, 600, "RGB", Pix(200)), mask |-> File(1000, 600, "RGB", Pix(White))]>>

NoSegment == [from |-> 0, to |-> 0, wave |-> <<>>]
NoVideo == [frames |-> 0, fps |-> 0, audio_clip |-> NoSegment]

\* The audio of a link: MaxDuration seconds and a half of one of the waves.
Audios(waves) ==
    {[from |-> 0, to |-> 1000 * MaxDuration + 500, wave |-> w] : w \in waves}

\* A wave of silence.
Silence == <<<<0>>>>

\* int(audio.duration_seconds)
DurationSeconds(a) == (a.to - a.from) \div 1000

\* What st.select_slider can return: an ordered pair of range(durations_seconds).
Sliders(a) ==
    {r \in (0..(DurationSeconds(a) - 1)) \X (0..(DurationSeconds(a) - 1)) : r[1] <= r[2]}

\* The state when the script starts, with what the user and the deployment
\* supply drawn from the given sets.
InitWith(boxes, plays, images, masks, buttons, signs, audios, sliders, rates) ==
    /\ selected_box \in boxes
    /\ playing \in plays
    /\ uploaded_img_file \in images
    /\ uploaded_img_mask \in masks
    /\ button \in buttons
    /\ sample_files = SampleFiles
    /\ sign_img \in signs
    /\ audio \in audios
    /\ slider \in Sliders(audio) \cap sliders
    /\ fps \in rates
    /\ pc = "main"
    /\ warning = ""
    /\ img = NoArray
    /\ img_mask = NoArray
    /\ img_width = 0
    /\ img_height = 0
    /\ binary_mask = <<>>
    /\ heap = [s \in Slots |-> NoArray]
    /\ resized_img = "none"
    /\ img_foreground = "none"
    /\ img_background = "none"
    /\ amplitudes = <<>>
    /\ max_val = Num(0, 0)
    /\ brightness = Num(0, 0)
    /\ merged_image = "none"
    /\ cut_audio = NoSegment
    /\ chunks = 0
    /\ chunk_index = 0
    /\ img_clips = 0
    /\ video = NoVideo

\* A glyph of 200 x 400 pixels, placed; any of SignLevels at each position.
Signs == {[shape |-> <<200, 400>>, pix |-> pix] : pix \in [Positions -> SignLevels]}

(***************************************************************************)
(* Loading and preparing an image                                           *)
(***************************************************************************)
\* Side lengths around the powers of two times MaxSide.
Dims == {d \in 1..MaxDim : d <= 1 \/ d % MaxSide <= 1}

PreparedImages ==
    {NoFile} \cup {File(w, h, m, Pix(200)) : w \in Dims, h \in Dims, m \in {"L", "RGB"}}

PreparedMasks ==
    {NoFile} \cup {File(d[1], d[2], m, Pix(White)) :
                      d \in {<<MaxSide, MaxSide>>, <<MaxSide, MaxDim>>, <<MaxDim, MaxDim>>},
                      m \in {"RGB", "RGBA"}}

InitPrepare ==
    InitWith(Pages, BOOLEAN, PreparedImages, PreparedMasks, BOOLEAN,
             {[shape |-> <<200, 400>>, pix |-> Pix(255)]}, Audios({Silence}),
             {<<0, max_time_s>>, <<0, max_time_s + 1>>}, {60})

NextPrepare ==
    \/ Main
    \/ SelectRange
    \/ LoadImage
    \/ ProcessResize
    \/ ProcessSegment
    \/ ProcessSign

SpecPrepare == InitPrepare /\ [][NextPrepare]_vars

\* load_image has returned an image.
Loaded == img # NoArray

\* process_image has left its resize loop.
Resized == Loaded /\ pc # "process_image"

\* The least number of halvings after which both sides are at most MaxSide.
Halvings(w, h) ==
    CHOOSE k \in 0..MaxDim :
        /\ w \div Pow2(k) <= MaxSide /\ h \div Pow2(k) <= MaxSide
        /\ \A j \in 0..(k - 1) : w \div Pow2(j) > MaxSide \/ h \div Pow2(j) > MaxSide

\* C2: the working dimensions of process_image are both at most 500 and are
\* the width and the height of the input image halved k times by integer
\* division, k being the least number of halvings after which both are at
\* most 500; the resized image has these dimensions.
C2_ResizeInvariant ==
    Resized =>
        LET k == Halvings(Width(img), Height(img))
        IN /\ img_width = Width(img) \div Pow2(k)
           /\ img_height = Height(img) \div Pow2(k)
           /\ img_width <= 500 /\ img_height <= 500
           /\ resized_img # "none" =>
                  heap[resized_img].shape = <<img_height, img_width, 3>>

\* An image of 2001 x 1001 is halved twice, the width deciding.
C2_Witness ==
    /\ pc = "sign"
    /\ Width(img) = 2001 /\ Height(img) = 1001
    /\ img_width = 500 /\ img_height = 250

\* The files load_image opens on the path taken.
OpenedPairs ==
    IF button THEN {<<sample_files[k].img, sample_files[k].mask>> : k \in 1..Len(sample_files)}
    ELSE {<<uploaded_img_file, uploaded_img_mask>>}

LivePage == {"Visualize Sound in Real Time"}

\* Images of 300 x 200 with any levels, and one of 600 x 400 that is resized.
PixelImages ==
    {File(300, 200, "RGB", pix) : pix \in [Positions -> PixLevels]}
        \cup {File(600, 400, "RGB", Pix(200))}

PixelMasks ==
    {NoFile} \cup {File(300, 200, "RGB", pix) : pix \in [Positions -> MaskLevels]}
             \cup {File(600, 400, "RGB", Pix(White))}

\* Windows whose peaks give the factors 1.0, 0.7 and the least one.
PixelWindows == {<<-3000>>, <<0>>, <<3000>>}

InitPixel ==
    InitWith(LivePage, {TRUE}, PixelImages, PixelMasks, {FALSE}, Signs, Audios({Silence}),
             {<<0, max_time_s>>}, {60})

NextPixel ==
    \/ Main
    \/ LoadImage
    \/ ProcessResize
    \/ ProcessSegment
    \/ ProcessSign
    \/ \E window \in PixelWindows : GetFrames(window)
    \/ NoFrame

SpecPixel == InitPixel /\ [][NextPixel]_vars

\* C3 as the claim states it: every pixel of the frame encode_image returns is
\* the sum of the brightness-adjusted foreground and the watermarked background
\* saturated at 255, never a wrapped-around value.
C3_SaturatedSum ==
    merged_image # "none" =>
        \A p \in Positions :
            heap[merged_image].pix[p] =
                Min(255, heap["adj"].pix[p] + heap[img_background].pix[p])

\* C3, what the code does: the sum is taken modulo 256.
C3_WrappedSum ==
    merged_image # "none" =>
        \A p \in Positions :
            heap[merged_image].pix[p] =
                (heap["adj"].pix[p] + heap[img_background].pix[p]) % 256

\* A pixel of level 200 under the watermark, at full brightness: 200 + 128
\* comes out as 72.
C3_Witness ==
    /\ merged_image # "none"
    /\ \E p \in Positions :
          /\ heap["adj"].pix[p] = 200
          /\ heap[img_background].pix[p] = 128
          /\ heap[merged_image].pix[p] = 72

\* C5: for a masked input, before the watermark is applied, the foreground
\* holds the pixel of the resized image where the binarized mask is set and
\* black elsewhere, the background holds it where the mask is not set and black
\* elsewhere, and foreground plus background is the resized image.
C5_Complementarity ==
    (pc = "sign" /\ img_mask # NoArray) =>
        \A p \in Positions :
            LET r == heap[resized_img].pix[p]
                f == heap[img_foreground].pix[p]
                b == heap[img_background].pix[p]
            IN /\ f = (IF binary_mask[p] # 0 THEN r ELSE 0)
               /\ b = (IF binary_mask[p] # 0 THEN 0 ELSE r)
               /\ f + b = r

\* A mask that sets one position and not another, over a bright image.
C5_Witness ==
    /\ pc = "sign"
    /\ img_mask # NoArray
    /\ \E p, q \in Positions :
          /\ binary_mask[p] # 0 /\ binary_mask[q] = 0
          /\ heap[resized_img].pix[p] = 200 /\ heap[resized_img].pix[q] = 200
          /\ heap[img_foreground].pix[p] = 200 /\ heap[img_background].pix[q] = 200

(***************************************************************************)
(* The export                                                               *)
(***************************************************************************)
YouTubePage == {"Visualize Sound - YouTube"}

\* A wave with windows of one, two and three samples.
Tone == <<<<1000, -1000, 0>>, <<-32767, 32767>>, <<32767>>>>

AllSliders == (0..MaxDuration) \X (0..MaxDuration)

OneImage == {File(300, 200, "RGB", Pix(200))}

\* Every range of the slider at 30 frames a second, and every frame rate on the
\* ranges that start at 0.
InitExport ==
    /\ InitWith(YouTubePage, {FALSE}, OneImage, {NoFile}, {FALSE},
                {[shape |-> <<200, 400>>, pix |-> Pix(255)]}, Audios({Tone}),
                AllSliders, FrameRates)
    /\ slider[1] = 0 \/ fps = 30

NextExport ==
    \/ Main
    \/ SelectRange
    \/ LoadImage
    \/ ProcessResize
    \/ ProcessSegment
    \/ ProcessSign
    \/ CutAudio
    \/ ExportChunk
    \/ WriteVideo

SpecExport == InitExport /\ [][NextExport]_vars

\* ceil(L / (1000 / F)) for a clip of L milliseconds.
Frames(L, F) == (L * F + 999) \div 1000

\* C1: for a clip of L ms and a frame rate F the export loop appends exactly
\* ceil(L / (1000 / F)) frames to img_clips, one per chunk (none for L = 0);
\* the chunk count is that number for every length up to the longest clip, and
\* a trailing partial chunk is a chunk of its own.
C1_FrameCountLaw ==
    LET L == SegmentLen(cut_audio)
    IN /\ pc \in {"export_loop", "done"} =>
             /\ chunks = Frames(L, fps)
             /\ img_clips = chunk_index
             /\ chunk_index <= chunks
       /\ pc = "done" => img_clips = Frames(L, fps) /\ video.frames = Frames(L, fps)
       /\ (pc = "error" /\ chunks = 0 /\ cut_audio # NoSegment) => L = 0 /\ img_clips = 0
       /\ pc = "cut_audio" =>
             \A ms \in 0..(1000 * max_time_s) :
                /\ NumberOfChunks(ms, fps) = Frames(ms, fps)
                /\ ms > 0 => LET last == Chunk(ms, fps, Frames(ms, fps) - 1)
                             IN last.from < last.to /\ last.to = 6 * ms

\* One second at 60 frames a second gives 60 frames.
C1_Witness ==
    /\ pc = "done"
    /\ SegmentLen(cut_audio) = 1000
    /\ fps = 60
    /\ img_clips = 60 /\ video.frames = 60

\* C8: the audio track of the exported video is audio[start*1000 : end*1000],
\* whatever the frame rate, and the cut is not changed by the chunking and the
\* encoding of the frames.
C8_AudioFidelity ==
    LET clip == [audio EXCEPT !.from = audio.from + 1000 * slider[1],
                              !.to = audio.from + 1000 * slider[2]]
    IN /\ pc \in {"export_loop", "done"} => cut_audio = clip
       /\ pc = "done" => video.audio_clip = clip /\ video.fps = fps

\* The seconds 2 to 5 of the audio, exported.
C8_Witness ==
    /\ pc = "done"
    /\ slider = <<2, 5>>
    /\ video.audio_clip.from = 2000 /\ video.audio_clip.to = 5000
    /\ video.frames = 90

(***************************************************************************)
(* The encoder, in the live loop and in the export                          *)
(***************************************************************************)
\* PCM samples: full scale either way, and a tenth of a unit.
SampleLevels == {-32767, 1000, 32767}

\* The non-empty windows of at most MaxWin samples.
EncodeWindows == UNION {[1..n -> SampleLevels] : n \in 1..MaxWin}

\* An image with and without a mask that sets the first position only.
EncodeMasks == {NoFile, File(300, 200, "RGB", [p \in Positions |->
                                  IF p = 1 THEN White ELSE <<0, 0, 0>>])}

InitEncode ==
    InitWith(LivePage \cup YouTubePage, {TRUE}, OneImage, EncodeMasks, {FALSE},
             {[shape |-> <<200, 400>>, pix |-> Pix(255)]}, Audios({Tone}),
             {<<0, 1>>, <<0, max_time_s + 1>>}, {30})

NextEncode ==
    \/ Main
    \/ SelectRange
    \/ LoadImage
    \/ ProcessResize
    \/ ProcessSegment
    \/ ProcessSign
    \/ \E window \in EncodeWindows : GetFrames(window)
    \/ NoFrame
    \/ CutAudio
    \/ ExportChunk
    \/ WriteVideo

SpecEncode == InitEncode /\ [][NextEncode]_vars

\* encode_image has been called.
Encoded == merged_image # "none"

\* C6 as the claim states it: for every non-empty window the brightness factor
\* passed to adjust_brightness lies in [0.4, 1.0].
C6_BrightnessBound ==
    Encoded => /\ ~Less(brightness, Num(4000, 0))
               /\ ~Less(Num(10000, 0), brightness)

\* C6, amended: the factor lies in [0.4 - 2^-54, 1.0]; it is below 0.4, by the
\* rounding of 0.7 - 0.3 in binary64, exactly when the peak is 0.3 or more.
C6_BrightnessBoundRounded ==
    Encoded =>
        /\ ~Less(brightness, Num(4000, -(Divisor * Pow2(DoubleScale - 54))))
        /\ ~Less(Num(10000, 0), brightness)
        /\ Less(brightness, Num(4000, 0)) <=> max_val.q >= 3000

\* A full-scale positive peak: the factor is just below 0.4.
C6_Witness ==
    /\ Encoded
    /\ max_val.q = 32767
    /\ brightness.q = 4000 /\ brightness.e < 0

\* A step taken in the live loop or in the export loop keeps the layers.
LayersKept ==
    pc \in {"get_frames", "export_loop"} =>
        /\ img_foreground' = img_foreground
        /\ img_background' = img_background
        /\ heap'[img_foreground] = heap[img_foreground]
        /\ heap'[img_background] = heap[img_background]
        /\ heap'[resized_img] = heap[resized_img]
        /\ merged_image' \notin {img_foreground, img_background, resized_img}
        /\ heap'[img_foreground].lines = <<>>
        /\ heap'[img_background].lines = <<>>

\* C7: no call of encode_image, with or without the overlay, in the live loop
\* or in the export, changes the foreground and the background process_image
\* returned; the frame it returns is another array than these, and the trace
\* is on that frame only.
C7_LayerImmutability == [][LayersKept]_vars

\* Frames with a trace have been encoded from a dimmed foreground, and the
\* layers are as process_image left them.
C7_Witness ==
    /\ pc = "export_loop"
    /\ img_clips >= 2
    /\ heap[merged_image].lines # <<>>
    /\ heap["adj"].pix # heap[img_foreground].pix
    /\ heap[img_background].pix = Pix(128)
    /\ heap[img_background].lines = <<>>

\* C9 as the claim states it: on a window of n >= 2 samples the trace has the
\* segments (i, i + 1) for every i from 0 to n - 2, left to right, and on a
\* shorter window it has none.
C9_OverlayTrace ==
    (Encoded /\ pc \in {"export_loop", "done"}) =>
        LET n == Len(amplitudes)
            trace == heap[merged_image].lines
        IN /\ Len(trace) = Max(0, n - 1)
           /\ \A k \in 1..Len(trace) : trace[k].from = k - 1 /\ trace[k].to = k

\* C9, what the code does: the segments (i, i + 1) for i from 0 to n - 3.
C9_TraceStopsShort ==
    (Encoded /\ pc \in {"export_loop", "done"}) =>
        LET n == Len(amplitudes)
            trace == heap[merged_image].lines
        IN /\ Len(trace) = Max(0, n - 2)
           /\ \A k \in 1..Len(trace) : trace[k].from = k - 1 /\ trace[k].to = k

\* A window of three samples gets the one segment (0, 1).
C9_Witness ==
    /\ pc = "export_loop"
    /\ Len(amplitudes) = 3
    /\ Len(heap[merged_image].lines) = 1

\* clamp of a sample count to [lo, hi]
Clamp(x, lo, hi) == Max(lo, Min(hi, x))

\* The index of the first amplitude of largest absolute value.
FirstPeak(amps) ==
    LET Size(k) == IF amps[k].q < 0 THEN -amps[k].q ELSE amps[k].q
    IN CHOOSE k \in 1..Len(amps) :
          /\ \A j \in 1..Len(amps) : Size(j) <= Size(k)
          /\ \A j \in 1..(k - 1) : Size(j) < Size(k)

\* C10: encode_image reduces a non-empty window to its element of largest
\* absolute value, the first of them when several tie, and the brightness
\* factor is 0.7 minus that peak clamped to [-0.3, 0.3] (to the rounding of
\* binary64, less than 2^-52).
C10_PeakReduction ==
    Encoded =>
        LET s == amplitudes[FirstPeak(amplitudes)].q
            ulp == Divisor * Pow2(DoubleScale - 52)
        IN /\ max_val.q = s
           /\ brightness.q = 7000 - Clamp(s, -3000, 3000)
           /\ -ulp < brightness.e /\ brightness.e < ulp

\* +a before -a: the positive sample is the peak and the picture is dimmed.
C10_Witness ==
    /\ Encoded
    /\ Len(amplitudes) >= 2
    /\ amplitudes[1].q = 32767 /\ amplitudes[2].q = -32767
    /\ max_val.q = 32767
    /\ brightness.q = 4000

====
